---------------------------- MODULE Spec2Model ----------------------------
(***************************************************************************)
(* Model of day1/main.py: the in-memory session store (chat_histories,     *)
(* append_to_history, get_chat_history) and the conversational endpoint    *)
(* POST /agent/chat/{session_id} (agent_chat) with its three external      *)
(* collaborators: the transcriber, the language model and the speech       *)
(* synthesizer.                                                            *)
(*                                                                         *)
(* Python str values are TLA+ strings.  Values that may be None, or that   *)
(* may be of several Python types, are tagged records [t, v].              *)
(*                                                                         *)
(* agent_chat is an `async def` handler: it runs on the event loop and     *)
(* gives the loop up only at an `await` (request.form(), upload.read(),    *)
(* request.json()).  The collaborator calls are plain blocking calls, so   *)
(* the handler keeps the loop from its last await until its response has   *)
(* been handed over.  `running` is the call that holds the event loop and  *)
(* `waiting` the calls suspended in an await.                              *)
(***************************************************************************)
EXTENDS Integers, Sequences, FiniteSets, Bags, TLC

(***************************************************************************)
(* Bounds of the model.                                                    *)
(***************************************************************************)
MaxRequests == 2      \* requests received (and so handlers started) in one behaviour
MaxTextLen == 7001    \* longest text given to chunk_text in ChunkSpec

SessionIds == {"s1", "s2"}         \* values of the session_id path parameter

(***************************************************************************)
(* Python values.                                                          *)
(***************************************************************************)
None == [t |-> "none", v |-> ""]
Str(s) == [t |-> "str", v |-> s]
Upload(b) == [t |-> "upload", v |-> b]     \* an UploadFile holding bytes b
Absent == [t |-> "absent", v |-> ""]       \* key not in the form / the body

Bytes(b) == [t |-> "bytes", v |-> b]
Raise == [t |-> "raise", v |-> ""]         \* the evaluation raises an exception

\* bool(x) for x a str, a bytes value or None
Truthy(x) == x.t \in {"str", "bytes"} /\ x.v # ""

\* s.startswith(prefix)
StartsWith(s, prefix) ==
    Len(s) >= Len(prefix) /\ SubSeq(s, 1, Len(prefix)) = prefix

IsSpace(c) == c \in {" ", "\t", "\n"}

RECURSIVE lstrip(_)
lstrip(s) ==
    IF Len(s) > 0 /\ IsSpace(SubSeq(s, 1, 1))
    THEN lstrip(SubSeq(s, 2, Len(s)))
    ELSE s

RECURSIVE rstrip(_)
rstrip(s) ==
    IF Len(s) > 0 /\ IsSpace(SubSeq(s, Len(s), Len(s)))
    THEN rstrip(SubSeq(s, 1, Len(s) - 1))
    ELSE s

\* str.strip()
strip(s) == rstrip(lstrip(s))

\* s repeated n times
RECURSIVE Rep(_, _)
Rep(s, n) ==
    IF n = 0 THEN ""
    ELSE LET h == Rep(s, n \div 2)
         IN  IF n % 2 = 0 THEN h \o h ELSE (h \o h) \o s

(***************************************************************************)
(* The session store, lines 12-22.  chat_histories is a function whose     *)
(* domain is the set of sessions that have an entry in the dict.           *)
(***************************************************************************)
Turn(role, content) == [role |-> role, content |-> content]

\* an append that puts the new turn in front of the list
append_to_history_prepend(histories, sid, role, content) ==
    LET present == IF sid \in DOMAIN histories
                   THEN histories
                   ELSE (sid :> <<>>) @@ histories
    IN  [present EXCEPT ![sid] = <<Turn(role, strip(content))>> \o @]

\* an append that stores the content as given
append_to_history_no_strip(histories, sid, role, content) ==
    LET present == IF sid \in DOMAIN histories
                   THEN histories
                   ELSE (sid :> <<>>) @@ histories
    IN  [present EXCEPT ![sid] = Append(@, Turn(role, content))]

\* an append to one list shared by all the sessions the store holds
append_to_history_shared(histories, sid, role, content) ==
    LET present == IF sid \in DOMAIN histories
                   THEN histories
                   ELSE (sid :> <<>>) @@ histories
    IN  [s \in DOMAIN present |-> Append(present[s], Turn(role, strip(content)))]

append_to_history(histories, sid, role, content) ==
    LET present == IF sid \in DOMAIN histories
                   THEN histories
                   ELSE (sid :> <<>>) @@ histories
    IN  [present EXCEPT ![sid] = Append(@, Turn(role, strip(content)))]

get_chat_history(histories, sid) ==
    IF sid \in DOMAIN histories THEN histories[sid] ELSE <<>>

(***************************************************************************)
(* chunk_text, lines 271-272.                                              *)
(***************************************************************************)
MAX_LEN == 3000

Min(a, b) == IF a < b THEN a ELSE b

\* range(0, n, step) as the sequence of its values
RECURSIVE Range(_, _, _)
Range(i, n, step) ==
    IF i >= n THEN <<>> ELSE <<i>> \o Range(i + step, n, step)

\* text[i:j] for 0 <= i, with j clipped to len(text)
Slice(text, i, j) ==
    IF i >= Min(j, Len(text)) THEN ""
    ELSE SubSeq(text, i + 1, Min(j, Len(text)))

\* a chunk_text whose slices are one character short of the step
chunk_text_short_slice(text, max_len) ==
    LET starts == Range(0, Len(text), max_len)
    IN  [k \in 1..Len(starts) |-> Slice(text, starts[k], starts[k] + max_len - 1)]

\* a chunk_text that leaves out the last chunk when it is not a full one
chunk_text_drop_tail(text, max_len) ==
    LET starts == Range(0, Len(text) - max_len + 1, max_len)
    IN  [k \in 1..Len(starts) |-> Slice(text, starts[k], starts[k] + max_len)]

chunk_text(text, max_len) ==
    LET starts == Range(0, Len(text), max_len)
    IN  [k \in 1..Len(starts) |-> Slice(text, starts[k], starts[k] + max_len)]


(***************************************************************************)
(* Requests a client can send, and what the collaborators can answer.      *)
(***************************************************************************)
MULTIPART == "multipart/form-data; boundary=b"
JSON == "application/json"
PLAIN == "text/plain"

ContentTypes == {MULTIPART, JSON, PLAIN}

Body(file, text, dict) == [file |-> file, text |-> text, dict |-> dict]

\* form-data bodies: the "file" part and the "text" part are each absent, a
\* plain string field, or an uploaded file
MultipartBodies ==
    {Body(Absent, Absent, TRUE),
     Body(Absent, Str("  "), TRUE),
     Body(Absent, Str(" hi "), TRUE),
     Body(Absent, Upload("t"), TRUE),
     Body(Str("f"), Absent, TRUE),
     Body(Upload(""), Str(" hi "), TRUE),
     Body(Upload("audio"), Absent, TRUE),
     Body(Upload("audio"), Str(" hi "), TRUE),
     Body(Upload("audio"), Upload("t"), TRUE)}

\* JSON bodies: an object (dict) with "text" absent, null or a string, or a
\* body that is not an object
JsonBodies ==
    {Body(Absent, Absent, TRUE),
     Body(Absent, None, TRUE),
     Body(Absent, Str("  "), TRUE),
     Body(Absent, Str(" hi "), TRUE),
     Body(Absent, Absent, FALSE)}

\* the body of a request that has not been read, or could not be
NoBody == Body(Absent, Absent, FALSE)

NoRequest == [ctype |-> "", body |-> NoBody]

\* transcript.text of a transcript the transcriber returns
Transcripts == {None, Str(" "), Str(" yo ")}

LongReply == Rep("abcdefg", 1000)

\* what generate_content returns: the value of its `text` attribute (Raise
\* when reading it raises, Absent when there is none) and the `text` of
\* candidates[0].content.parts[0] (Raise when there is no such part)
LlmResponses ==
    {[text |-> Str(" ok "), part |-> Str(" ok ")],
     [text |-> Str(LongReply), part |-> Str(LongReply)],
     [text |-> Str(""), part |-> Str("")],
     [text |-> Absent, part |-> Raise],
     [text |-> Raise, part |-> Absent]}

\* tts_response.audio_file of a successful synthesis of `text`
AudioFile(text) == [audio_of |-> text]

STT_FAIL_TEXT == "Sorry, I couldn't process the audio."
NO_INPUT_TEXT == "I didn't catch anything. Can you try again?"
LLM_FALLBACK_TEXT == "I had trouble thinking of a reply, but let's keep going."

(***************************************************************************)
(* State.                                                                  *)
(*   chat_histories  the module-level dict, line 12                        *)
(*   running         the frame of the agent_chat call that holds the event *)
(*                   loop (IdleFrame when the loop runs no handler)        *)
(*   waiting         the bag of frames of the calls suspended in an await  *)
(*   nreq            number of requests received so far                    *)
(*   chunker         a direct application of chunk_text (ChunkSpec only)   *)
(* A frame holds the locals of one call: its position pc, the request it   *)
(* serves, session_id, file_bytes, input_text, gemini_text, the chunk list *)
(* being iterated (chunks, i), audio_urls, the payload it returned         *)
(* (response); and, for observation only: the collaborator calls it made   *)
(* (calls), the try blocks in which an exception was raised (raised), the  *)
(* session store as it was when the call last took the event loop (store0, *)
(* empty while suspended) and the number of turns it appended (appended).  *)
(***************************************************************************)
VARIABLES chat_histories, running, waiting, nreq, chunker, peripheral

vars == <<chat_histories, running, waiting, nreq, chunker, peripheral>>

NoResponse ==
    [success |-> FALSE, gemini_text |-> "", audio_urls |-> <<>>, history |-> <<>>]

IdleFrame ==
    [pc |-> "idle", request |-> NoRequest, session_id |-> "",
     file_bytes |-> None, input_text |-> None, gemini_text |-> "",
     chunks |-> <<>>, i |-> 0, audio_urls |-> <<>>, response |-> NoResponse,
     calls |-> <<>>, raised |-> {}, store0 |-> <<>>, appended |-> 0]

ChunkerOff == [pc |-> "off", text |-> "", out |-> <<>>]

\* no call of a peripheral endpoint is in progress
PeripheralIdle ==
    [pc |-> "idle", endpoint |-> "", request |-> "", calls |-> <<>>,
     response |-> [status |-> 0]]

Init ==
    /\ chat_histories = <<>>
    /\ running = IdleFrame
    /\ waiting = EmptyBag
    /\ nreq = 0
    /\ chunker = ChunkerOff
    /\ peripheral = PeripheralIdle

UNEXPECTED_TEXT == "Something unexpected happened, but I'm still here!"

\* the payload of a return statement of agent_chat
Payload(text, urls, history) ==
    [success |-> TRUE, gemini_text |-> text, audio_urls |-> urls,
     history |-> history]

\* the except clause that handles an exception raised inside a try block of
\* agent_chat (lines 204/219, 224/227, 246/263, 270/280); every other
\* statement of the handler is inside the outer try only (198/290)
\* a try/except structure in which no clause catches what the synthesis
\* loop raises
ExceptBlock_tts_uncaught(try) ==
    CASE try = "parse" -> "parse_except"
      [] try = "stt"   -> "stt_except"
      [] try = "llm"   -> "llm_except"
      [] try = "tts"   -> "uncaught"
      [] OTHER         -> "outer_except"

\* a try/except structure in which the language-model block has no clause
\* of its own, so that the outer clause answers
ExceptBlock_llm_outer(try) ==
    CASE try = "parse" -> "parse_except"
      [] try = "stt"   -> "stt_except"
      [] try = "tts"   -> "tts_except"
      [] OTHER         -> "outer_except"

ExceptBlock(try) ==
    CASE try = "parse" -> "parse_except"
      [] try = "stt"   -> "stt_except"
      [] try = "llm"   -> "llm_except"
      [] try = "tts"   -> "tts_except"
      [] OTHER         -> "outer_except"

\* the frame f after an exception raised in `try` has been handled: the
\* except clause has run (lines 219-220, 227-233, 263-264, 280-288, 290-296);
\* an exception no clause handles leaves the handler (pc = "raised")
\* an except clause for the transcriber that goes on to the input check
\* instead of returning
Handle_stt_falls_through(f, try, history) ==
    LET clause == ExceptBlock(try)
        g == [f EXCEPT !.raised = @ \cup {try}]
    IN  CASE clause = "parse_except" ->
               [g EXCEPT !.input_text = None, !.pc = "stt"]
          [] clause = "stt_except" ->
               [g EXCEPT !.pc = "check_input"]
          [] clause = "llm_except" ->
               [g EXCEPT !.gemini_text = LLM_FALLBACK_TEXT,
                         !.pc = "append_assistant"]
          [] clause = "tts_except" ->
               [g EXCEPT !.audio_urls = <<>>,
                         !.response = Payload(g.gemini_text, <<>>, history),
                         !.pc = "done"]
          [] clause = "outer_except" ->
               [g EXCEPT !.response = Payload(UNEXPECTED_TEXT, <<>>, history),
                         !.pc = "done"]
          [] OTHER ->
               [g EXCEPT !.pc = "raised"]

\* an except clause for the synthesizer that returns the audio references
\* collected before the failure
Handle_keeps_partial(f, try, history) ==
    LET clause == ExceptBlock(try)
        g == [f EXCEPT !.raised = @ \cup {try}]
    IN  CASE clause = "parse_except" ->
               [g EXCEPT !.input_text = None, !.pc = "stt"]
          [] clause = "stt_except" ->
               [g EXCEPT !.response = Payload(STT_FAIL_TEXT, <<>>, history),
                         !.pc = "done"]
          [] clause = "llm_except" ->
               [g EXCEPT !.gemini_text = LLM_FALLBACK_TEXT,
                         !.pc = "append_assistant"]
          [] clause = "tts_except" ->
               [g EXCEPT !.response = Payload(g.gemini_text, g.audio_urls, history),
                         !.pc = "done"]
          [] clause = "outer_except" ->
               [g EXCEPT !.response = Payload(UNEXPECTED_TEXT, <<>>, history),
                         !.pc = "done"]
          [] OTHER ->
               [g EXCEPT !.pc = "raised"]

\* an except clause for the language model that returns the fallback text
\* at once, without the assistant turn
Handle_llm_returns(f, try, history) ==
    LET clause == ExceptBlock(try)
        g == [f EXCEPT !.raised = @ \cup {try}]
    IN  CASE clause = "parse_except" ->
               [g EXCEPT !.input_text = None, !.pc = "stt"]
          [] clause = "stt_except" ->
               [g EXCEPT !.response = Payload(STT_FAIL_TEXT, <<>>, history),
                         !.pc = "done"]
          [] clause = "llm_except" ->
               [g EXCEPT !.response = Payload(LLM_FALLBACK_TEXT, <<>>, history),
                         !.pc = "done"]
          [] clause = "tts_except" ->
               [g EXCEPT !.audio_urls = <<>>,
                         !.response = Payload(g.gemini_text, <<>>, history),
                         !.pc = "done"]
          [] clause = "outer_except" ->
               [g EXCEPT !.response = Payload(UNEXPECTED_TEXT, <<>>, history),
                         !.pc = "done"]
          [] OTHER ->
               [g EXCEPT !.pc = "raised"]

Handle(f, try, history) ==
    LET clause == ExceptBlock(try)
        g == [f EXCEPT !.raised = @ \cup {try}]
    IN  CASE clause = "parse_except" ->
               [g EXCEPT !.input_text = None, !.pc = "stt"]
          [] clause = "stt_except" ->
               [g EXCEPT !.response = Payload(STT_FAIL_TEXT, <<>>, history),
                         !.pc = "done"]
          [] clause = "llm_except" ->
               [g EXCEPT !.gemini_text = LLM_FALLBACK_TEXT,
                         !.pc = "append_assistant"]
          [] clause = "tts_except" ->
               [g EXCEPT !.audio_urls = <<>>,
                         !.response = Payload(g.gemini_text, <<>>, history),
                         !.pc = "done"]
          [] clause = "outer_except" ->
               [g EXCEPT !.response = Payload(UNEXPECTED_TEXT, <<>>, history),
                         !.pc = "done"]
          [] OTHER ->
               [g EXCEPT !.pc = "raised"]

Call(svc, arg) == [svc |-> svc, arg |-> arg, failed |-> FALSE]

\* the call log with its last call marked as failed: the call raised, or the
\* handler could read no reply off what it returned
Failed(calls) == [calls EXCEPT ![Len(calls)].failed = TRUE]

\* the running handler is at position p
At(p) == running.pc = p

\* the event loop is free and f is a handler suspended at position p
Resumes(f, p) == running.pc = "idle" /\ BagIn(f, waiting) /\ f.pc = p

\* the stored history of the session frame f serves
History(f) == get_chat_history(chat_histories, f.session_id)

\* the running handler awaits at position p: it gives up the event loop
Suspend(p) ==
    /\ waiting' = waiting (+) SetToBag({[running EXCEPT !.pc = p, !.store0 = <<>>]})
    /\ running' = IdleFrame

(***************************************************************************)
(* agent_chat: start and input parsing, lines 197-220.                     *)
(***************************************************************************)
\* lines 197-201: the handler starts on a free event loop
Receive ==
    /\ At("idle")
    /\ nreq < MaxRequests
    /\ \E sid \in SessionIds, ctype \in ContentTypes :
         running' = [IdleFrame EXCEPT
                       !.pc = "parse",
                       !.session_id = sid,
                       !.request = [ctype |-> ctype, body |-> NoBody],
                       !.store0 = chat_histories]
    /\ nreq' = nreq + 1
    /\ UNCHANGED <<chat_histories, waiting, chunker, peripheral>>

\* lines 205-206: await request.form()
AwaitForm ==
    /\ At("parse")
    /\ StartsWith(running.request.ctype, "multipart/form-data")
    /\ Suspend("await_form")
    /\ UNCHANGED <<chat_histories, nreq, chunker, peripheral>>

\* lines 213-214: await request.json()
AwaitJson ==
    /\ At("parse")
    /\ ~StartsWith(running.request.ctype, "multipart/form-data")
    /\ StartsWith(running.request.ctype, "application/json")
    /\ Suspend("await_json")
    /\ UNCHANGED <<chat_histories, nreq, chunker, peripheral>>

\* lines 217-218: any other content type
OtherContentType ==
    /\ At("parse")
    /\ ~StartsWith(running.request.ctype, "multipart/form-data")
    /\ ~StartsWith(running.request.ctype, "application/json")
    /\ running' = [running EXCEPT !.input_text = None, !.pc = "stt"]
    /\ UNCHANGED <<chat_histories, waiting, nreq, chunker, peripheral>>

\* lines 206-209: request.form() reads the body and returns the form, or
\* raises (lines 219-220); with an uploaded "file" part the handler goes on
\* to await upload_file.read()
FormDone(f) ==
    /\ Resumes(f, "await_form")
    /\ LET g == [f EXCEPT !.store0 = chat_histories]
           rest == waiting (-) SetToBag({f})
       IN  \/ /\ running' = Handle(g, "parse", History(f))
              /\ waiting' = rest
           \/ \E form \in MultipartBodies :
                LET h == [g EXCEPT !.request.body = form]
                IN  IF form.file.t = "upload"
                    THEN /\ running' = IdleFrame
                         /\ waiting' = rest (+)
                              SetToBag({[h EXCEPT !.pc = "await_read", !.store0 = <<>>]})
                    ELSE /\ running' = [h EXCEPT !.pc = "form_text"]
                         /\ waiting' = rest
    /\ UNCHANGED <<chat_histories, nreq, chunker, peripheral>>

\* line 209: upload_file.read() returns the bytes of the part, or raises
\* (lines 219-220)
ReadDone(f) ==
    /\ Resumes(f, "await_read")
    /\ LET g == [f EXCEPT !.store0 = chat_histories]
       IN  \/ running' = [g EXCEPT !.file_bytes = Bytes(g.request.body.file.v),
                                   !.pc = "form_text"]
           \/ running' = Handle(g, "parse", History(f))
    /\ waiting' = waiting (-) SetToBag({f})
    /\ UNCHANGED <<chat_histories, nreq, chunker, peripheral>>

\* lines 210-211: form["text"].strip(); an uploaded file has no strip(), and
\* the AttributeError is handled by lines 219-220
FormText ==
    /\ At("form_text")
    /\ LET text == running.request.body.text
       IN  running' =
               IF text.t = "absent" THEN [running EXCEPT !.pc = "stt"]
               ELSE IF text.t = "str"
               THEN [running EXCEPT !.input_text = Str(strip(text.v)), !.pc = "stt"]
               ELSE Handle(running, "parse", History(running))
    /\ UNCHANGED <<chat_histories, waiting, nreq, chunker, peripheral>>

\* lines 214-215: request.json() reads the body and returns it, or raises;
\* body.get("text", "").strip() raises unless body is a dict and the value a
\* str (lines 219-220)
JsonDone(f) ==
    /\ Resumes(f, "await_json")
    /\ LET g == [f EXCEPT !.store0 = chat_histories]
       IN  \/ running' = Handle(g, "parse", History(f))
           \/ \E body \in JsonBodies :
                LET h == [g EXCEPT !.request.body = body]
                    text == IF body.text.t = "absent" THEN Str("") ELSE body.text
                IN  running' =
                        IF body.dict /\ text.t = "str"
                        THEN [h EXCEPT !.input_text = Str(strip(text.v)), !.pc = "stt"]
                        ELSE Handle(h, "parse", History(f))
    /\ waiting' = waiting (-) SetToBag({f})
    /\ UNCHANGED <<chat_histories, nreq, chunker, peripheral>>

(***************************************************************************)
(* agent_chat: transcription, lines 222-233, and the input check, 235-243. *)
(***************************************************************************)
\* lines 223-225: transcriber.transcribe(file_bytes) is called
SttCall ==
    /\ At("stt")
    /\ Truthy(running.file_bytes)
    /\ running' = [running EXCEPT
                     !.calls = Append(@, Call("stt", running.file_bytes.v)),
                     !.pc = "stt_wait"]
    /\ UNCHANGED <<chat_histories, waiting, nreq, chunker, peripheral>>

\* line 223: no audio bytes
SttSkip ==
    /\ At("stt")
    /\ ~Truthy(running.file_bytes)
    /\ running' = [running EXCEPT !.pc = "check_input"]
    /\ UNCHANGED <<chat_histories, waiting, nreq, chunker, peripheral>>

\* a handler that keeps the text field, when there is one, over the
\* transcript
SttReturn_text_first ==
    /\ At("stt_wait")
    /\ \E text \in Transcripts :
         running' = [running EXCEPT
                       !.input_text = IF Truthy(@) THEN @ ELSE text,
                       !.pc = "check_input"]
    /\ UNCHANGED <<chat_histories, waiting, nreq, chunker, peripheral>>

\* lines 225-226: the transcriber returns a transcript
SttReturn ==
    /\ At("stt_wait")
    /\ \E text \in Transcripts :
         running' = [running EXCEPT !.input_text = text, !.pc = "check_input"]
    /\ UNCHANGED <<chat_histories, waiting, nreq, chunker, peripheral>>

\* lines 225, 227-233: the transcriber raises
SttRaise ==
    /\ At("stt_wait")
    /\ running' = Handle([running EXCEPT !.calls = Failed(@)], "stt",
                          History(running))
    /\ UNCHANGED <<chat_histories, waiting, nreq, chunker, peripheral>>

\* a handler that goes back to the transcription step when it has no input
NoInput_asks_again ==
    /\ At("check_input")
    /\ ~Truthy(running.input_text)
    /\ running' = [running EXCEPT !.pc = "stt"]
    /\ UNCHANGED <<chat_histories, waiting, nreq, chunker, peripheral>>

\* lines 235-241
NoInput ==
    /\ At("check_input")
    /\ ~Truthy(running.input_text)
    /\ running' = [running EXCEPT
                     !.response = Payload(NO_INPUT_TEXT, <<>>, History(running)),
                     !.pc = "done"]
    /\ UNCHANGED <<chat_histories, waiting, nreq, chunker, peripheral>>

\* line 243
AppendUser ==
    /\ At("check_input")
    /\ Truthy(running.input_text)
    /\ chat_histories' = append_to_history(chat_histories, running.session_id,
                                           "user", running.input_text.v)
    /\ running' = [running EXCEPT !.appended = @ + 1, !.pc = "llm"]
    /\ UNCHANGED <<waiting, nreq, chunker, peripheral>>

(***************************************************************************)
(* agent_chat: the language model, lines 245-266.                          *)
(***************************************************************************)
RoleLabel(role) == IF role = "user" THEN "User" ELSE "Assistant"

\* "\n".join(lines)
RECURSIVE Join(_)
Join(lines) ==
    IF Len(lines) = 0 THEN ""
    ELSE IF Len(lines) = 1 THEN lines[1]
    ELSE (lines[1] \o "\n") \o Join(Tail(lines))

\* a history text that keeps the last two turns only
HistoryText_last_two(history) ==
    Join([k \in 1..Min(2, Len(history)) |->
            (RoleLabel(history[Len(history) - Min(2, Len(history)) + k].role) \o ": ")
                \o history[Len(history) - Min(2, Len(history)) + k].content])

\* lines 247-250
HistoryText(history) ==
    Join([k \in 1..Len(history) |->
            (RoleLabel(history[k].role) \o ": ") \o history[k].content])

PROMPT_HEAD ==
    "\nYou are a friendly AI voice assistant.\nContinue the conversation naturally based on the following history:\n\n"

PROMPT_TAIL == "\n\nAssistant:\n"

\* lines 251-258
Prompt(history) == (PROMPT_HEAD \o HistoryText(history)) \o PROMPT_TAIL

\* lines 261-262: getattr(llm_response, "text", None) or
\*                getattr(llm_response.candidates[0].content.parts[0], "text", "No response.")
GeminiText(resp) ==
    IF resp.text.t = "raise" THEN Raise
    ELSE IF Truthy(resp.text) THEN resp.text
    ELSE IF resp.part.t = "raise" THEN Raise
    ELSE IF resp.part.t = "absent" THEN Str("No response.")
    ELSE resp.part

\* a handler that awaits generate_content and so gives up the event loop
\* between its two appends
LlmCall_awaited ==
    /\ At("llm")
    /\ Suspend("llm_wait")
    /\ UNCHANGED <<chat_histories, nreq, chunker, peripheral>>

\* lines 247-260: the prompt is built and generate_content(prompt) is called
LlmCall ==
    /\ At("llm")
    /\ running' = [running EXCEPT
                     !.calls = Append(@, Call("llm", Prompt(History(running)))),
                     !.pc = "llm_wait"]
    /\ UNCHANGED <<chat_histories, waiting, nreq, chunker, peripheral>>

\* lines 260-262: generate_content returns a response; reading the reply
\* text off it may raise (lines 263-264)
LlmReturn ==
    /\ At("llm_wait")
    /\ \E resp \in LlmResponses :
         LET text == GeminiText(resp)
         IN  running' =
                 IF text.t = "raise"
                 THEN Handle([running EXCEPT !.calls = Failed(@)], "llm",
                             History(running))
                 ELSE [running EXCEPT !.gemini_text = text.v,
                                      !.pc = "append_assistant"]
    /\ UNCHANGED <<chat_histories, waiting, nreq, chunker, peripheral>>

\* lines 260, 263-264: generate_content raises
LlmRaise ==
    /\ At("llm_wait")
    /\ running' = Handle([running EXCEPT !.calls = Failed(@)], "llm",
                          History(running))
    /\ UNCHANGED <<chat_histories, waiting, nreq, chunker, peripheral>>

(***************************************************************************)
(* agent_chat: speech synthesis, lines 268-281, and the return, 283-288.   *)
(***************************************************************************)
\* lines 266-273: the assistant turn is appended, audio_urls = [] and the
\* for loop starts on the list chunk_text(gemini_text)
AppendAssistant ==
    /\ At("append_assistant")
    /\ chat_histories' = append_to_history(chat_histories, running.session_id,
                                           "assistant", running.gemini_text)
    /\ running' = [running EXCEPT
                     !.appended = @ + 1,
                     !.audio_urls = <<>>,
                     !.chunks = chunk_text(running.gemini_text, MAX_LEN),
                     !.i = 1,
                     !.pc = "tts"]
    /\ UNCHANGED <<waiting, nreq, chunker, peripheral>>

\* lines 273-278: the next chunk is sent to text_to_speech.generate
TtsCall ==
    /\ At("tts")
    /\ running.i <= Len(running.chunks)
    /\ running' = [running EXCEPT
                     !.calls = Append(@, Call("tts", running.chunks[running.i])),
                     !.pc = "tts_wait"]
    /\ UNCHANGED <<chat_histories, waiting, nreq, chunker, peripheral>>

\* lines 275-279: the synthesizer returns; audio_urls.append(...)
TtsReturn ==
    /\ At("tts_wait")
    /\ running' = [running EXCEPT
                     !.audio_urls = Append(@, AudioFile(running.chunks[running.i])),
                     !.i = @ + 1,
                     !.pc = "tts"]
    /\ UNCHANGED <<chat_histories, waiting, nreq, chunker, peripheral>>

\* lines 275, 280-288: the synthesizer raises; audio_urls = [] and the
\* handler returns
TtsRaise ==
    /\ At("tts_wait")
    /\ running' = Handle([running EXCEPT !.calls = Failed(@)], "tts",
                          History(running))
    /\ UNCHANGED <<chat_histories, waiting, nreq, chunker, peripheral>>

\* lines 283-288, after the loop has run out of chunks
Return ==
    /\ At("tts")
    /\ running.i > Len(running.chunks)
    /\ running' = [running EXCEPT
                     !.response = Payload(running.gemini_text, running.audio_urls,
                                          History(running)),
                     !.pc = "done"]
    /\ UNCHANGED <<chat_histories, waiting, nreq, chunker, peripheral>>

\* the returned payload is sent to the client; the handler is gone and the
\* event loop is free again
Deliver ==
    /\ At("done")
    /\ running' = IdleFrame
    /\ UNCHANGED <<chat_histories, waiting, nreq, chunker, peripheral>>

(***************************************************************************)
(* The peripheral endpoints, lines 63-192.  A handler runs on the event    *)
(* loop: it starts and resumes only when the loop is free, and from its    *)
(* last await to its return it is one step.  Each handler is a try block   *)
(* whose except clause raises HTTPException(500).                          *)
(***************************************************************************)
\* request.text of a TTSRequest or LLMRequest, the bytes of an uploaded
\* file, and str(e) of an exception
PERIPHERAL_TEXT == "hello"
PERIPHERAL_AUDIO == "audio"
ERROR_TEXT == "boom"

\* transcript.text, and response.text of the language model
TranscriptTexts == {None, Str(" yo ")}
ReplyTexts == {Str(" ok "), Str(LongReply)}

\* the dict a handler returns, and the exception its except clause raises
HttpOk(body) == [status |-> 200, body |-> body]

\* an except clause that answers with a payload, as agent_chat does
HTTPException_as_payload(status_code, detail) ==
    [status |-> 200, body |-> [error |-> detail]]

HTTPException(status_code, detail) == [status |-> status_code, detail |-> detail]

\* a call that raised
Bad(svc, arg) == [svc |-> svc, arg |-> arg, failed |-> TRUE]

\* lines 150-151 and 177-178
Shorten(response_text) ==
    IF Len(response_text) > 3000
    THEN SubSeq(response_text, 1, 2995) \o "..."
    ELSE response_text

\* the handler f has made the calls and ends with the response
Ends(f, calls, response) ==
    [f EXCEPT !.pc = "done", !.calls = calls, !.response = response]

\* a request for an endpoint arrives on the free event loop
Starts(endpoint, request) ==
    /\ At("idle")
    /\ peripheral.pc = "idle"
    /\ nreq < MaxRequests
    /\ nreq' = nreq + 1

\* the handler of the endpoint is resumed after await file.read()
AfterRead(endpoint) ==
    /\ At("idle")
    /\ peripheral.pc = "await_read"
    /\ peripheral.endpoint = endpoint

\* lines 63-73
generate_tts ==
    /\ Starts("generate_tts", PERIPHERAL_TEXT)
    /\ LET f == [PeripheralIdle EXCEPT !.endpoint = "generate_tts",
                                       !.request = PERIPHERAL_TEXT]
           text == Str(PERIPHERAL_TEXT)
       IN  \/ peripheral' = Ends(f, <<Call("tts", text)>>,
                                 HttpOk([audio_url |-> AudioFile(text)]))
           \/ peripheral' = Ends(f, <<Bad("tts", text)>>,
                                 HTTPException(500, "TTS generation failed: " \o ERROR_TEXT))
    /\ UNCHANGED <<chat_histories, running, waiting, chunker>>

\* lines 77-81, 92-94, 102-104, 137-140: the handler of an endpoint that
\* takes an uploaded file starts and awaits file.read(); upload_audio opens
\* its target file first, which may raise (lines 79-80, 87-88)
AwaitFileRead ==
    /\ \E endpoint \in {"upload_audio", "transcribe_audio", "echo_with_murf",
                        "llm_query_audio"} :
         /\ Starts(endpoint, PERIPHERAL_AUDIO)
         /\ LET f == [PeripheralIdle EXCEPT !.endpoint = endpoint,
                                            !.request = PERIPHERAL_AUDIO]
            IN  \/ peripheral' = [f EXCEPT !.pc = "await_read"]
                \/ /\ endpoint = "upload_audio"
                   /\ peripheral' =
                        Ends(f, <<Bad("open", Str("uploads/a.wav"))>>,
                             HTTPException(500, "Upload failed: " \o ERROR_TEXT))
    /\ UNCHANGED <<chat_histories, running, waiting, chunker>>

\* lines 81-88
upload_audio ==
    /\ AfterRead("upload_audio")
    /\ LET audio == Bytes(peripheral.request)
           open == <<Call("open", Str("uploads/a.wav"))>>
           failed == HTTPException(500, "Upload failed: " \o ERROR_TEXT)
       IN  \/ peripheral' = Ends(peripheral, open \o <<Bad("read", audio)>>, failed)
           \/ peripheral' = Ends(peripheral,
                                 open \o <<Call("read", audio), Bad("write", audio)>>,
                                 failed)
           \/ peripheral' = Ends(peripheral,
                                 open \o <<Call("read", audio), Call("write", audio)>>,
                                 HttpOk([filename |-> "a.wav",
                                         content_type |-> "audio/wav",
                                         size |-> Len(audio.v)]))
    /\ UNCHANGED <<chat_histories, running, waiting, nreq, chunker>>

\* lines 94-98
transcribe_audio ==
    /\ AfterRead("transcribe_audio")
    /\ LET audio == Bytes(peripheral.request)
           failed == HTTPException(500, "Transcription failed: " \o ERROR_TEXT)
       IN  \/ peripheral' = Ends(peripheral, <<Bad("read", audio)>>, failed)
           \/ peripheral' = Ends(peripheral, <<Call("read", audio), Bad("stt", audio)>>,
                                 failed)
           \/ \E text \in TranscriptTexts :
                peripheral' = Ends(peripheral,
                                   <<Call("read", audio), Call("stt", audio)>>,
                                   HttpOk([transcription |-> text]))
    /\ UNCHANGED <<chat_histories, running, waiting, nreq, chunker>>

\* lines 104-119
echo_with_murf ==
    /\ AfterRead("echo_with_murf")
    /\ LET audio == Bytes(peripheral.request)
           failed == HTTPException(500, "Echo failed: " \o ERROR_TEXT)
       IN  \/ peripheral' = Ends(peripheral, <<Bad("read", audio)>>, failed)
           \/ peripheral' = Ends(peripheral, <<Call("read", audio), Bad("stt", audio)>>,
                                 failed)
           \/ \E text \in TranscriptTexts :
                LET calls == <<Call("read", audio), Call("stt", audio)>>
                IN  \/ peripheral' = Ends(peripheral, calls \o <<Bad("tts", text)>>,
                                          failed)
                    \/ peripheral' = Ends(peripheral, calls \o <<Call("tts", text)>>,
                                          HttpOk([transcription |-> text,
                                                  audio_url |-> AudioFile(text)]))
    /\ UNCHANGED <<chat_histories, running, waiting, nreq, chunker>>

\* lines 127-133
llm_query ==
    /\ Starts("llm_query", PERIPHERAL_TEXT)
    /\ LET f == [PeripheralIdle EXCEPT !.endpoint = "llm_query",
                                       !.request = PERIPHERAL_TEXT]
           text == Str(PERIPHERAL_TEXT)
       IN  \/ peripheral' = Ends(f, <<Bad("llm", text)>>,
                                 HTTPException(500, "LLM query failed: " \o ERROR_TEXT))
           \/ \E reply \in ReplyTexts :
                peripheral' = Ends(f, <<Call("llm", text)>>,
                                   HttpOk([response |-> reply]))
    /\ UNCHANGED <<chat_histories, running, waiting, chunker>>

\* lines 140-166
llm_query_audio ==
    /\ AfterRead("llm_query_audio")
    /\ LET audio == Bytes(peripheral.request)
           failed == HTTPException(500, "LLM audio query failed: " \o ERROR_TEXT)
       IN  \/ peripheral' = Ends(peripheral, <<Bad("read", audio)>>, failed)
           \/ peripheral' = Ends(peripheral, <<Call("read", audio), Bad("stt", audio)>>,
                                 failed)
           \/ \E user_text \in TranscriptTexts :
                LET heard == <<Call("read", audio), Call("stt", audio)>>
                IN  \/ peripheral' = Ends(peripheral, heard \o <<Bad("llm", user_text)>>,
                                          failed)
                    \/ \E reply \in ReplyTexts :
                         LET response_text == Str(Shorten(strip(reply.v)))
                             asked == heard \o <<Call("llm", user_text)>>
                         IN  \/ peripheral' =
                                  Ends(peripheral, asked \o <<Bad("tts", response_text)>>,
                                       failed)
                             \/ peripheral' =
                                  Ends(peripheral, asked \o <<Call("tts", response_text)>>,
                                       HttpOk([user_transcription |-> user_text,
                                               llm_response |-> response_text,
                                               audio_url |-> AudioFile(response_text)]))
    /\ UNCHANGED <<chat_histories, running, waiting, nreq, chunker>>

\* lines 169-192
llm_query_text ==
    /\ Starts("llm_query_text", PERIPHERAL_TEXT)
    /\ LET f == [PeripheralIdle EXCEPT !.endpoint = "llm_query_text",
                                       !.request = PERIPHERAL_TEXT]
           text == Str(PERIPHERAL_TEXT)
           failed == HTTPException(500, "LLM text query failed: " \o ERROR_TEXT)
       IN  \/ peripheral' = Ends(f, <<Bad("llm", text)>>, failed)
           \/ \E reply \in ReplyTexts :
                LET response_text == Str(Shorten(strip(reply.v)))
                    asked == <<Call("llm", text)>>
                IN  \/ peripheral' = Ends(f, asked \o <<Bad("tts", response_text)>>,
                                          failed)
                    \/ peripheral' =
                         Ends(f, asked \o <<Call("tts", response_text)>>,
                              HttpOk([llm_response |-> response_text,
                                      audio_url |-> AudioFile(response_text)]))
    /\ UNCHANGED <<chat_histories, running, waiting, chunker>>

\* the response or the error of a peripheral call is sent to the client
PeripheralDeliver ==
    /\ peripheral.pc = "done"
    /\ peripheral' = PeripheralIdle
    /\ UNCHANGED <<chat_histories, running, waiting, nreq, chunker>>

(***************************************************************************)
(* A direct application of chunk_text to a text (ChunkSpec).               *)
(***************************************************************************)
\* a text of length n whose characters cycle with period 7, which does not
\* divide MAX_LEN
TextOfLen(n) == SubSeq(Rep("abcdefg", (n \div 7) + 1), 1, n)

InitChunk ==
    /\ chat_histories = <<>>
    /\ running = IdleFrame
    /\ waiting = EmptyBag
    /\ nreq = 0
    /\ \E n \in 0..MaxTextLen :
         chunker = [pc |-> "ready", text |-> TextOfLen(n), out |-> <<>>]
    /\ peripheral = PeripheralIdle

ApplyChunk ==
    /\ chunker.pc = "ready"
    /\ chunker' = [chunker EXCEPT !.pc = "done",
                                  !.out = chunk_text(chunker.text, MAX_LEN)]
    /\ UNCHANGED <<chat_histories, running, waiting, nreq, peripheral>>

(***************************************************************************)
(* Specifications.                                                         *)
(***************************************************************************)
Next ==
    \/ Receive
    \/ AwaitForm
    \/ AwaitJson
    \/ OtherContentType
    \/ \E f \in BagToSet(waiting) : FormDone(f)
    \/ \E f \in BagToSet(waiting) : ReadDone(f)
    \/ FormText
    \/ \E f \in BagToSet(waiting) : JsonDone(f)
    \/ SttCall
    \/ SttSkip
    \/ SttReturn
    \/ SttRaise
    \/ NoInput
    \/ AppendUser
    \/ LlmCall
    \/ LlmReturn
    \/ LlmRaise
    \/ AppendAssistant
    \/ TtsCall
    \/ TtsReturn
    \/ TtsRaise
    \/ Return
    \/ Deliver

Spec == Init /\ [][Next]_vars

\* the steps of the handler's own code
RunningStep ==
    \/ AwaitForm
    \/ AwaitJson
    \/ OtherContentType
    \/ FormText
    \/ SttCall
    \/ SttSkip
    \/ NoInput
    \/ AppendUser
    \/ LlmCall
    \/ AppendAssistant
    \/ TtsCall
    \/ Return
    \/ Deliver

\* a collaborator's call returns or raises
ExternalAnswer ==
    \/ SttReturn
    \/ SttRaise
    \/ LlmReturn
    \/ LlmRaise
    \/ TtsReturn
    \/ TtsRaise

\* an awaited read of the request body ends and the handler is resumed
Resume ==
    \E f \in BagToSet(waiting) : FormDone(f) \/ ReadDone(f) \/ JsonDone(f)

\* the event loop runs the coroutine that holds it, a blocking call comes
\* back, and a coroutine whose await has ended is resumed once the loop is
\* free; nothing obliges a client to send a request
FairSpec ==
    /\ Spec
    /\ WF_vars(RunningStep)
    /\ WF_vars(ExternalAnswer)
    /\ SF_vars(Resume)

NextChunk == ApplyChunk

ChunkSpec == InitChunk /\ [][NextChunk]_vars

\* the whole application: agent_chat and the peripheral endpoints share the
\* event loop, which sends a finished peripheral response before it takes
\* up anything else
NextServer ==
    \/ peripheral.pc # "done" /\ Next
    \/ generate_tts
    \/ AwaitFileRead
    \/ upload_audio
    \/ transcribe_audio
    \/ echo_with_murf
    \/ llm_query
    \/ llm_query_audio
    \/ llm_query_text
    \/ PeripheralDeliver

ServerSpec == Init /\ [][NextServer]_vars

(***************************************************************************)
(* Properties.                                                             *)
(***************************************************************************)
\* the strings of a list, concatenated in list order
RECURSIVE Concat(_)
Concat(list) ==
    IF Len(list) = 0 THEN "" ELSE list[1] \o Concat(Tail(list))

\* the number of characters of the elements before the k-th
RECURSIVE Offset(_, _)
Offset(list, k) ==
    IF k <= 1 THEN 0 ELSE Offset(list, k - 1) + Len(list[k - 1])

\* C1: chunk_text(T, 3000) is a list of contiguous, non-overlapping
\* substrings of T, in text order, whose concatenation is T; every element
\* has between 1 and 3000 characters; the list of the empty text is empty.
C1_ChunksPartitionText ==
    chunker.pc = "done" =>
        LET T == chunker.text
            out == chunker.out
        IN  /\ Concat(out) = T
            /\ \A k \in 1..Len(out) :
                 /\ Len(out[k]) >= 1
                 /\ Len(out[k]) <= 3000
                 /\ Offset(out, k) + Len(out[k]) <= Len(T)
                 /\ out[k] = SubSeq(T, Offset(out, k) + 1, Offset(out, k) + Len(out[k]))
            /\ (T = "" => out = <<>>)

\* a 7000-character text has been cut into three chunks
C1_Witness ==
    /\ chunker.pc = "done"
    /\ Len(chunker.text) = 7000
    /\ Len(chunker.out) = 3

\* the list stored for session sid in the dict d, [] when there is none
Stored(d, sid) == IF sid \in DOMAIN d THEN d[sid] ELSE <<>>

IsList(x) == DOMAIN x = 1..Len(x)

\* the calls of the log made to collaborator svc
CallsTo(calls, svc) == SelectSeq(calls, LAMBDA c : c.svc = svc)

\* C2: whatever parsing, transcription, generation and each synthesis call
\* do, no exception leaves agent_chat, and the payload it returns has
\* success true, a list as audio_urls and, as history, the history stored
\* for the session at that moment.
C2_AlwaysSuccessPayload ==
    /\ running.pc # "raised"
    /\ \A f \in BagToSet(waiting) : f.pc # "raised"
    /\ running.pc = "done" =>
         /\ running.response.success = TRUE
         /\ IsList(running.response.audio_urls)
         /\ running.response.history = Stored(chat_histories, running.session_id)

\* a call in which parsing, generation and synthesis all failed has returned
C2_Witness ==
    /\ running.pc = "done"
    /\ running.raised = {"parse", "llm", "tts"}
    /\ Len(CallsTo(running.calls, "stt")) = 1

\* t is s without its leading and trailing whitespace
Trimmed(s, t) ==
    \E i, j \in 0..Len(s) :
        /\ i + j <= Len(s)
        /\ \A k \in 1..i : IsSpace(SubSeq(s, k, k))
        /\ \A k \in (Len(s) - j + 1)..Len(s) : IsSpace(SubSeq(s, k, k))
        /\ t = SubSeq(s, i + 1, Len(s) - j)
        /\ t # "" => /\ ~IsSpace(SubSeq(t, 1, 1))
                     /\ ~IsSpace(SubSeq(t, Len(t), Len(t)))

\* the request of frame f carries audio bytes: an uploaded "file" part that
\* is not empty
CarriesAudio(f) ==
    /\ f.request.body.file.t = "upload"
    /\ f.request.body.file.v # ""

\* the text field of the request of frame f is absent or empty once trimmed
NoText(f) ==
    \/ f.request.body.text.t = "absent"
    \/ /\ f.request.body.text.t = "str"
       /\ \A k \in 1..Len(f.request.body.text.v) :
            IsSpace(SubSeq(f.request.body.text.v, k, k))

UnsupportedType(f) ==
    /\ ~StartsWith(f.request.ctype, "multipart/form-data")
    /\ ~StartsWith(f.request.ctype, "application/json")

\* the request of frame f has no usable input in the sense of the claim
NoUsableInput(f) ==
    \/ ~CarriesAudio(f) /\ NoText(f)
    \/ UnsupportedType(f)
    \/ "parse" \in f.raised

\* the call of frame f has changed nothing in the store and has called
\* neither the language model nor the synthesizer
NoEffect(f) ==
    /\ chat_histories = f.store0
    /\ f.appended = 0
    /\ CallsTo(f.calls, "llm") = <<>>
    /\ CallsTo(f.calls, "tts") = <<>>

\* C3: a request with no usable input (no audio bytes and no text, an
\* unsupported content type, or a failure while parsing the body) is
\* answered with the no-input text and no audio; no session's history
\* changes, no session is created, no language-model or synthesis call is
\* made.
C3_NoInputShortCircuit ==
    (running.pc = "done" /\ NoUsableInput(running)) =>
        /\ running.response.gemini_text = NO_INPUT_TEXT
        /\ running.response.audio_urls = <<>>
        /\ NoEffect(running)

\* the history the session of frame f had when the handler last took the
\* event loop; nothing of this request had touched the store before
History0(f) == get_chat_history(f.store0, f.session_id)

\* the last n turns of a history
LastTurns(history, n) ==
    SubSeq(history, Len(history) - n + 1, Len(history))

\* C4: when the request carries audio bytes and the transcription call
\* fails, the answer is the fixed audio-failure text, which is not the
\* no-input text, with no audio; the store is unchanged and neither the
\* language model nor the synthesizer is called, whatever the text field of
\* the request holds.
C4_SttFailureShortCircuit ==
    (running.pc = "done" /\ "stt" \in running.raised) =>
        /\ CarriesAudio(running)
        /\ running.response.gemini_text = STT_FAIL_TEXT
        /\ STT_FAIL_TEXT # NO_INPUT_TEXT
        /\ running.response.audio_urls = <<>>
        /\ running.response.history = History0(running)
        /\ NoEffect(running)

C4_Witness ==
    /\ running.pc = "done"
    /\ "stt" \in running.raised
    /\ running.request.body.text = Str(" hi ")
    /\ Len(History0(running)) = 2

\* C5: when the language-model call fails, the reply text is the fixed
\* fallback string; the session gains the user turn and then an assistant
\* turn holding exactly the fallback string; synthesis is attempted on the
\* fallback string; the response's gemini_text is the fallback string.
C5_LlmFallback ==
    (running.pc = "done" /\ "llm" \in running.raised) =>
        /\ running.gemini_text = LLM_FALLBACK_TEXT
        /\ running.response.gemini_text = LLM_FALLBACK_TEXT
        /\ Len(History(running)) = Len(History0(running)) + 2
        /\ SubSeq(History(running), 1, Len(History0(running))) = History0(running)
        /\ LastTurns(History(running), 2)[1].role = "user"
        /\ LastTurns(History(running), 2)[2] =
               [role |-> "assistant", content |-> LLM_FALLBACK_TEXT]
        /\ Len(CallsTo(running.calls, "tts")) = 1
        /\ CallsTo(running.calls, "tts")[1].arg = LLM_FALLBACK_TEXT

C5_Witness ==
    /\ running.pc = "done"
    /\ "llm" \in running.raised
    /\ "tts" \notin running.raised
    /\ running.response.audio_urls = <<AudioFile(LLM_FALLBACK_TEXT)>>

\* the number of chunks of a text of n characters
NumChunks(n) == (n + 2999) \div 3000

\* the k-th run of 3000 characters of a text, the last one as long as what
\* is left of the text
KthChunk(text, k) ==
    SubSeq(text, 3000 * (k - 1) + 1,
           IF 3000 * k < Len(text) THEN 3000 * k ELSE Len(text))

\* C6: the audio_urls of a response is either empty or holds one entry per
\* chunk of the reply in chunk order, the latter whenever every synthesis
\* call succeeded; when a synthesis call fails the entries collected so far
\* are dropped, while gemini_text and the two turns the request appended
\* stay.
C6_AudioAllOrNothing ==
    running.pc = "done" =>
        /\ \/ running.response.audio_urls = <<>>
           \/ running.response.audio_urls =
                [k \in 1..NumChunks(Len(running.response.gemini_text)) |->
                    AudioFile(KthChunk(running.response.gemini_text, k))]
        /\ (running.appended = 2 /\ "tts" \notin running.raised) =>
               Len(running.response.audio_urls) =
                   NumChunks(Len(running.response.gemini_text))
        /\ "tts" \in running.raised =>
               /\ running.response.audio_urls = <<>>
               /\ running.response.gemini_text = running.gemini_text
               /\ running.appended = 2
               /\ running.response.history = History(running)
               /\ Len(History(running)) = Len(History0(running)) + 2
               /\ LastTurns(History(running), 2)[1].role = "user"
               /\ LastTurns(History(running), 2)[2].role = "assistant"

C6_Witness ==
    /\ running.pc = "done"
    /\ "tts" \in running.raised
    /\ Len(CallsTo(running.calls, "tts")) = 3
    /\ Len(running.gemini_text) = 7000

\* a request with a non-empty text field and no audio, sent to a session
\* the store does not hold
FreshTextRequest(f) ==
    /\ ~CarriesAudio(f)
    /\ ~NoText(f)
    /\ "parse" \notin f.raised
    /\ f.session_id \notin DOMAIN f.store0

\* the input of the request of frame f resolved to text: it passed the
\* input check
ResolvedToText(f) == f.pc = "done" /\ CallsTo(f.calls, "llm") # <<>>

\* C7: a text request with non-empty text to a fresh session returns success
\* true, a non-empty gemini_text and a history of exactly two turns, the
\* user turn with the trimmed input and then the assistant turn with the
\* trimmed gemini_text; every request whose input resolved to text appends
\* exactly two turns, the user turn first.
C7_TwoTurnsNonEmptyReply ==
    /\ (running.pc = "done" /\ FreshTextRequest(running)) =>
          /\ running.response.success = TRUE
          /\ running.response.gemini_text # ""
          /\ Len(running.response.history) = 2
          /\ running.response.history[1] =
                 [role |-> "user", content |-> running.input_text.v]
          /\ running.response.history[2].role = "assistant"
          /\ Trimmed(running.response.gemini_text,
                     running.response.history[2].content)
    /\ ResolvedToText(running) =>
          /\ running.appended = 2
          /\ Len(History(running)) = Len(History0(running)) + 2
          /\ LastTurns(History(running), 2)[1].role = "user"
          /\ LastTurns(History(running), 2)[2].role = "assistant"

\* C8: the stored history of every session is append-only: a step keeps
\* every session, and the history a session had before the step is a prefix
\* of the one it has after it.
C8_AppendOnly ==
    [][\A s \in DOMAIN chat_histories :
          /\ s \in DOMAIN chat_histories'
          /\ Len(chat_histories[s]) <= Len(chat_histories'[s])
          /\ SubSeq(chat_histories'[s], 1, Len(chat_histories[s])) =
                 chat_histories[s]]_vars

C8_Witness ==
    \E s \in DOMAIN chat_histories :
        /\ Len(chat_histories[s]) = 4
        /\ chat_histories[s][1].role = "user"
        /\ chat_histories[s][4].role = "assistant"

\* C9: an append to a session the store does not hold creates it with
\* exactly one turn, of the given role and with the given content trimmed
\* of leading and trailing whitespace; reading the history of a session the
\* store does not hold gives the empty sequence and creates nothing.
C9_FreshSession ==
    [][/\ \A s \in (DOMAIN chat_histories') \ (DOMAIN chat_histories) :
             /\ running.pc = "check_input"
             /\ s = running.session_id
             /\ Len(chat_histories'[s]) = 1
             /\ chat_histories'[s][1].role = "user"
             /\ Trimmed(running.input_text.v, chat_histories'[s][1].content)
       /\ (/\ running.pc # "done"
           /\ running'.pc = "done"
           /\ running.session_id \notin DOMAIN chat_histories) =>
             /\ running'.response.history = <<>>
             /\ DOMAIN chat_histories' = DOMAIN chat_histories]_vars

C9_Witness ==
    /\ running.pc = "llm"
    /\ running.input_text = Str(" yo ")
    /\ running.session_id \notin DOMAIN running.store0
    /\ chat_histories[running.session_id] = <<[role |-> "user", content |-> "yo"]>>

\* the synthesis calls of frame f so far
TtsCalls(f) == CallsTo(f.calls, "tts")

\* C10: the synthesis calls are made one at a time and in chunk order, each
\* after the one before it has succeeded, so that no call follows a failed
\* one; when all succeed there are ceil(L/3000) calls and as many audio
\* URLs, 3 calls on 3000, 3000 and 1000 characters for L = 7000.
C10_SynthesisInChunkOrder ==
    running.pc \in {"tts", "tts_wait", "done"} =>
        /\ Len(TtsCalls(running)) <= NumChunks(Len(running.gemini_text))
        /\ \A k \in 1..Len(TtsCalls(running)) :
              /\ TtsCalls(running)[k].arg = KthChunk(running.gemini_text, k)
              /\ k < Len(TtsCalls(running)) => ~TtsCalls(running)[k].failed
        /\ running.pc = "tts" =>
              Len(running.audio_urls) = Len(TtsCalls(running))
        /\ running.pc = "tts_wait" =>
              Len(running.audio_urls) = Len(TtsCalls(running)) - 1
        /\ (running.pc = "done" /\ running.appended = 2
               /\ "tts" \notin running.raised) =>
              /\ Len(TtsCalls(running)) = NumChunks(Len(running.gemini_text))
              /\ Len(running.response.audio_urls) = Len(TtsCalls(running))
              /\ Len(running.gemini_text) = 7000 =>
                    [k \in 1..3 |-> Len(TtsCalls(running)[k].arg)] =
                        <<3000, 3000, 1000>>

C10_Witness ==
    /\ running.pc = "done"
    /\ Len(running.gemini_text) = 7000
    /\ Len(running.response.audio_urls) = 3
    /\ Len(TtsCalls(running)) = 3

\* the roles of a history alternate, the first one being user
Alternates(history) ==
    \A k \in 1..Len(history) :
        history[k].role = IF k % 2 = 1 THEN "user" ELSE "assistant"

\* the running handler has appended its user turn to session s and not yet
\* its assistant turn
BetweenAppends(s) ==
    /\ running.pc \in {"llm", "llm_wait", "append_assistant"}
    /\ running.session_id = s

\* C11: in every session the roles of the turns alternate, starting with
\* user, and once the request at work on the session has completed the
\* history ends with an assistant turn; this holds after any sequence of
\* requests and whatever failed in them.
C11_RolesAlternate ==
    \A s \in DOMAIN chat_histories :
        /\ Alternates(chat_histories[s])
        /\ ~BetweenAppends(s) => Len(chat_histories[s]) % 2 = 0

C11_Witness ==
    /\ running.pc = "done"
    /\ running.raised = {"llm", "tts"}
    /\ Len(History(running)) = 4
    /\ Len(History0(running)) = 2

\* a handler suspended at an await can be resumed
CanResume(f) ==
    \/ ENABLED FormDone(f)
    \/ ENABLED ReadDone(f)
    \/ ENABLED JsonDone(f)

\* another request for session s is in flight, suspended at an await
OtherPending(s) == \E f \in BagToSet(waiting) : f.session_id = s

InExternalCall == running.pc \in {"stt_wait", "llm_wait", "tts_wait"}

\* C13: no operation of a request blocks a concurrent request for another
\* session: while the running handler waits for the transcriber, the
\* language model or the synthesizer, every request in flight for another
\* session can take its next step.
C13_OtherSessionNotBlocked ==
    InExternalCall =>
        \A f \in BagToSet(waiting) :
            f.session_id # running.session_id => CanResume(f)

\* the handler has left input parsing and the transcription step behind
PastStt(f) ==
    f.pc \in {"check_input", "llm", "llm_wait", "append_assistant", "tts",
              "tts_wait", "done"}

\* the user turn the running handler appended
UserTurn(f) == History(f)[Len(History0(f)) + 1]

\* C14: audio takes precedence over text.  With audio bytes the transcriber
\* is called once, on those bytes, and when it returns the transcript, not
\* the text field, is the input and its trimmed text the user turn; without
\* audio bytes the transcriber is not called and the user turn is the
\* trimmed text field; a JSON request never calls the transcriber.
C14_AudioBeforeText ==
    /\ StartsWith(running.request.ctype, "application/json") =>
          CallsTo(running.calls, "stt") = <<>>
    /\ PastStt(running) =>
          IF Truthy(running.file_bytes)
          THEN /\ StartsWith(running.request.ctype, "multipart/form-data")
               /\ Len(CallsTo(running.calls, "stt")) = 1
               /\ CallsTo(running.calls, "stt")[1].arg = running.request.body.file.v
               /\ "stt" \notin running.raised =>
                     /\ running.input_text \in Transcripts
                     /\ running.appended >= 1 =>
                           Trimmed(running.input_text.v, UserTurn(running).content)
          ELSE /\ CallsTo(running.calls, "stt") = <<>>
               /\ running.appended >= 1 =>
                     /\ running.request.body.text.t = "str"
                     /\ Trimmed(running.request.body.text.v,
                                UserTurn(running).content)

C14_Witness ==
    /\ running.pc = "done"
    /\ Truthy(running.file_bytes)
    /\ running.request.body.text = Str(" hi ")
    /\ running.appended = 2
    /\ UserTurn(running).content = "yo"

\* C15: input resolution gives a non-empty text or the no-input answer, so
\* the handler goes past the input check only with an input that is not
\* empty once trimmed, and every user turn stored in a history has a
\* non-empty content, whether the text came from the text field or from
\* the transcriber.
C15_UserTurnsNonEmpty ==
    /\ running.appended >= 1 => ~Trimmed(running.input_text.v, "")
    /\ \A s \in DOMAIN chat_histories :
          \A k \in 1..Len(chat_histories[s]) :
              chat_histories[s][k].role = "user" =>
                  chat_histories[s][k].content # ""

\* the line of the prompt for a turn
PromptLine(turn) ==
    (CASE turn.role = "user"      -> "User: "
       [] turn.role = "assistant" -> "Assistant: ") \o turn.content

\* the lines of the first k turns of a history, one below the other
RECURSIVE Listing(_, _)
Listing(history, k) ==
    IF k = 0 THEN ""
    ELSE IF k = 1 THEN PromptLine(history[1])
    ELSE (Listing(history, k - 1) \o "\n") \o PromptLine(history[k])

\* the last n characters of a string
Suffix(str, n) == SubSeq(str, Len(str) - n + 1, Len(str))

\* the history of the running handler's session when it called the
\* language model: what it found plus its own user turn
HistoryAtCall(f) == SubSeq(History(f), 1, Len(History0(f)) + 1)

\* C16: the prompt sent to the language model lists every turn the session
\* holds at the time of the call, in stored order and in full, each as a
\* User or Assistant line, and ends with the Assistant cue; the last line
\* listed is the user turn this request has just appended.
C16_PromptListsWholeHistory ==
    (running.appended >= 1 /\ CallsTo(running.calls, "llm") # <<>>) =>
        LET prompt  == CallsTo(running.calls, "llm")[1].arg
            history == HistoryAtCall(running)
            own     == "User: " \o strip(running.input_text.v)
            cue     == "\n\nAssistant:\n"
        IN  /\ Len(CallsTo(running.calls, "llm")) = 1
            /\ running.pc = "llm_wait" => history = History(running)
            /\ prompt = (PROMPT_HEAD \o Listing(history, Len(history))) \o cue
            /\ Suffix(prompt, Len(cue)) = cue
            /\ Suffix(prompt, Len(own) + Len(cue)) = own \o cue
            /\ history[Len(history)] =
                   [role |-> "user", content |-> strip(running.input_text.v)]

C16_Witness ==
    /\ running.pc = "llm_wait"
    /\ Len(History(running)) = 3
    /\ Len(History(running)[2].content) = 7000
    /\ Len(CallsTo(running.calls, "llm")[1].arg) > 7000

\* the reply text a peripheral endpoint passes on to the synthesizer
ShortReplies ==
    {Str("ok"), Str(SubSeq(LongReply, 1, 2995) \o "...")}

\* the payloads an endpoint can return to its one request, given what its
\* collaborators can answer; the session store has no part in them
PeripheralBodies(endpoint) ==
    CASE endpoint = "generate_tts" ->
           {[audio_url |-> AudioFile(Str("hello"))]}
      [] endpoint = "upload_audio" ->
           {[filename |-> "a.wav", content_type |-> "audio/wav", size |-> 5]}
      [] endpoint = "transcribe_audio" ->
           {[transcription |-> t] : t \in TranscriptTexts}
      [] endpoint = "echo_with_murf" ->
           {[transcription |-> t, audio_url |-> AudioFile(t)] : t \in TranscriptTexts}
      [] endpoint = "llm_query" ->
           {[response |-> r] : r \in ReplyTexts}
      [] endpoint = "llm_query_audio" ->
           {[user_transcription |-> t, llm_response |-> r, audio_url |-> AudioFile(r)] :
                t \in TranscriptTexts, r \in ShortReplies}
      [] endpoint = "llm_query_text" ->
           {[llm_response |-> r, audio_url |-> AudioFile(r)] : r \in ShortReplies}

\* C17: sessions are independent.  A step changes at most the history of
\* the session the running agent_chat handler serves and creates no other
\* session; a step of a peripheral endpoint leaves the store as it is, and
\* what the endpoint returns is made of its request and of its
\* collaborators' answers only, whatever the store holds.
C17_SessionsIndependent ==
    [][/\ \A s \in DOMAIN chat_histories :
             s # running.session_id =>
                 /\ s \in DOMAIN chat_histories'
                 /\ chat_histories'[s] = chat_histories[s]
       /\ DOMAIN chat_histories' \subseteq
              (DOMAIN chat_histories) \cup {running.session_id}
       /\ peripheral' # peripheral =>
             /\ chat_histories' = chat_histories
             /\ running' = running
             /\ peripheral'.response.status = 200 =>
                   peripheral'.response.body \in
                       PeripheralBodies(peripheral'.endpoint)]_vars

C17_Witness ==
    /\ running.pc = "done"
    /\ running.appended = 2
    /\ \E s \in DOMAIN chat_histories :
          /\ s # running.session_id
          /\ Len(chat_histories[s]) = 2
          /\ chat_histories[s] = running.store0[s]

\* the requests in flight
InFlight == (IF running.pc = "idle" THEN 0 ELSE 1) + BagCardinality(waiting)

\* the stage of a handler: 1 resolving the input, 3 generating the reply,
\* 4 appending the assistant turn, 5 synthesizing, 6 done; stage 2, the
\* append of the user turn, is the step from 1 to 3
Stage(pc) ==
    CASE pc \in {"llm", "llm_wait"}   -> 3
      [] pc = "append_assistant"      -> 4
      [] pc \in {"tts", "tts_wait"}   -> 5
      [] pc = "done"                  -> 6
      [] OTHER                        -> 1

\* a step of the running handler moves it forward
Forward ==
    (running.pc # "idle" /\ running'.pc # "idle") =>
        /\ Stage(running'.pc) >= Stage(running.pc)
        /\ Stage(running'.pc) \in
              {Stage(running.pc), 6,
               IF Stage(running.pc) = 1 THEN 3 ELSE Stage(running.pc) + 1}
        /\ Stage(running.pc) = 1 =>
              (Stage(running'.pc) = 3 <=> running'.appended = 1)
        /\ Stage(running.pc) = 5 =>
              /\ running'.i >= running.i
              /\ running'.i <= Len(running.chunks) + 1
              /\ Len(TtsCalls(running')) <= Len(running.chunks)

ErrorPrefix(endpoint) ==
    CASE endpoint = "generate_tts"     -> "TTS generation failed: "
      [] endpoint = "upload_audio"     -> "Upload failed: "
      [] endpoint = "transcribe_audio" -> "Transcription failed: "
      [] endpoint = "echo_with_murf"   -> "Echo failed: "
      [] endpoint = "llm_query"        -> "LLM query failed: "
      [] endpoint = "llm_query_audio"  -> "LLM audio query failed: "
      [] endpoint = "llm_query_text"   -> "LLM text query failed: "

\* the external calls of an endpoint, in the order it makes them
ExternalCalls(endpoint) ==
    CASE endpoint = "generate_tts"     -> <<"tts">>
      [] endpoint = "upload_audio"     -> <<"open", "read", "write">>
      [] endpoint = "transcribe_audio" -> <<"read", "stt">>
      [] endpoint = "echo_with_murf"   -> <<"read", "stt", "tts">>
      [] endpoint = "llm_query"        -> <<"llm">>
      [] endpoint = "llm_query_audio"  -> <<"read", "stt", "llm", "tts">>
      [] endpoint = "llm_query_text"   -> <<"llm", "tts">>

\* C19: a peripheral endpoint answers a failure of one of its external
\* calls with an HTTP 500 error whose message names the endpoint's
\* operation and the exception, never with a payload, and stops at the
\* failed call; it returns its payload only when it has made all its
\* external calls and none failed.
C19_PeripheralFailuresAre500 ==
    peripheral.pc = "done" =>
        LET calls == peripheral.calls
            made  == [k \in 1..Len(calls) |-> calls[k].svc]
            all   == ExternalCalls(peripheral.endpoint)
            response == peripheral.response
        IN  /\ response.status \in {200, 500}
            /\ response.status = 500 <=> \E k \in 1..Len(calls) : calls[k].failed
            /\ Len(calls) >= 1
            /\ made = SubSeq(all, 1, Len(calls))
            /\ \A k \in 1..(Len(calls) - 1) : ~calls[k].failed
            /\ response.status = 500 =>
                  /\ DOMAIN response = {"status", "detail"}
                  /\ response.detail = ErrorPrefix(peripheral.endpoint) \o ERROR_TEXT
            /\ response.status = 200 =>
                  /\ made = all
                  /\ response.body \in PeripheralBodies(peripheral.endpoint)

C19_Witness ==
    /\ peripheral.pc = "done"
    /\ peripheral.endpoint = "llm_query_audio"
    /\ peripheral.response.status = 500
    /\ Len(peripheral.calls) = 4
    /\ peripheral.calls[4].svc = "tts"

=============================================================================
